---- MODULE Spec2Model ----
(***************************************************************************)
(* xv6 physical page allocator with per-page reference counts             *)
(* (kernel/kalloc.c): kinit/freerange, kalloc, kfree, kref_inc, kref_dec,  *)
(* the two spinlocks kmem.lock and ref_lock, the intrusive free list and   *)
(* the free page counter.                                                  *)
(*                                                                         *)
(* Every CPU is a process with a program counter; one step is either the   *)
(* spin-acquire of a lock, or a critical section together with its         *)
(* release, or an unlocked statement between two critical sections.        *)
(***************************************************************************)
EXTENDS Integers, Sequences, FiniteSets, TLC

\* ------------------------------------------------------------------ bounds
\* Number of whole pages between PGROUNDUP(end) and PHYSTOP.
NFrames == 2
\* Calls are issued only while every reference count and the free page
\* counter stay within MaxRef of their legal range (caps the counters).
MaxRef == 2

\* ------------------------------------------------------- program constants
PGSIZE == 4096
\* memset(pa, 1, PGSIZE) in kfree and memset(r, 5, PGSIZE) in kalloc.
FILL_FREE == 1
FILL_ALLOC == 5

\* The CPUs.  CPU 1 boots the kernel and runs kinit.
Procs == {1, 2}
BootProc == 1
NoProc == 0

\* `end`: first address after the kernel; it need not be page aligned.
end == PGSIZE + 8

PGROUNDUP(a) == ((a + PGSIZE - 1) \div PGSIZE) * PGSIZE

PHYSTOP == PGROUNDUP(end) + NFrames * PGSIZE

get_ref_index(a) == a \div PGSIZE

\* int ref_counts[PHYSTOP / PGSIZE]
RefIndices == 0 .. (PHYSTOP \div PGSIZE) - 1

\* The page-aligned addresses freerange hands to kfree.
Frames == {a \in PGROUNDUP(end) .. PHYSTOP - 1 : a % PGSIZE = 0 /\ a + PGSIZE <= PHYSTOP}

\* The 8-byte word read from a page filled with byte b (0x0101.. or
\* 0x0505..).  It is no address of the machine; it is represented by the
\* token -b, which like the real word is neither 0, nor page aligned, nor
\* inside [0, PHYSTOP).
Word(b) == 0 - b

\* Values a `struct run *` can hold.
Ptrs == Frames \cup {0, Word(FILL_FREE), Word(FILL_ALLOC)}

\* Arguments the callers pass to kfree: the frames, a misaligned address, an
\* aligned address below `end`, and the aligned address PHYSTOP.
FreeArgs == Frames \cup {PGROUNDUP(end) + 1, PGROUNDUP(end) - PGSIZE, PHYSTOP}
\* Arguments the callers pass to kref_inc (inside the table).
IncArgs == Frames \cup {PGROUNDUP(end) + 1}

VARIABLES
  mode,                   \* which callers the run has: "owned" or "seq"
  pc,                     \* pc[p]: the statement CPU p executes next
  pa,                     \* pa[p]: argument of the running kfree/kref_inc
  r,                      \* r[p]: kalloc's local r, then its return value
  current_count,          \* current_count[p]: what kref_dec returned
  heir,                   \* heir[p]: who receives the reference kref_inc adds
  p_iter,                 \* freerange's loop variable p
  booted,                 \* kinit has returned
  panicked,               \* panic() was called: the system is halted
  ref_lock,               \* holder of ref_lock, NoProc when free
  ref_counts,             \* int ref_counts[]
  kmem_lock,              \* holder of kmem.lock
  kmem_freelist,          \* kmem.freelist
  kmem_free_pages_count,  \* kmem.free_pages_count
  mem_next,               \* mem_next[f]: the first word of page f (r->next)
  held,                   \* held[p][f]: counted references p holds
  rogue,                  \* some call was made on a frame its caller did not hold
  trace                   \* the calls made so far ("seq")

vars == <<mode, pc, pa, r, current_count, heir, p_iter, booted, panicked,
          ref_lock, ref_counts, kmem_lock, kmem_freelist,
          kmem_free_pages_count, mem_next, held, rogue, trace>>

ghost == <<held, rogue, trace>>
locals == <<pa, r, current_count, heir, p_iter>>
kmem == <<kmem_lock, kmem_freelist, kmem_free_pages_count>>
refs == <<ref_lock, ref_counts>>

\* Length of the call sequences explored with a single caller.
MaxTrace == NFrames + 2

\* ---------------------------------------------------------------- FreeList
\* The frames reached from kmem.freelist by following next, in order; the
\* walk stops at 0, at a word that is no frame, or at a frame seen before.
RECURSIVE Walk(_, _)
Walk(a, seen) ==
  IF a \notin Frames \/ a \in {seen[i] : i \in 1..Len(seen)}
  THEN seen
  ELSE Walk(mem_next[a], Append(seen, a))

FreeListSeq == Walk(kmem_freelist, <<>>)
FreeList == {FreeListSeq[i] : i \in 1..Len(FreeListSeq)}

\* The pointer at which the walk of the list stopped.
RECURSIVE WalkEnd(_, _)
WalkEnd(a, seen) ==
  IF a \notin Frames \/ a \in seen THEN a ELSE WalkEnd(mem_next[a], seen \cup {a})

\* The list is a proper null-terminated chain.
WellFormed == WalkEnd(kmem_freelist, {}) = 0

\* -------------------------------------------------------------------- Init
InitMode(m) ==
  /\ mode = m
  /\ pc = [p \in Procs |-> IF p = BootProc THEN "kinit" ELSE "idle"]
  /\ pa = [p \in Procs |-> 0]
  /\ r = [p \in Procs |-> 0]
  /\ current_count = [p \in Procs |-> 0]
  /\ heir = [p \in Procs |-> p]
  /\ p_iter = 0
  /\ booted = FALSE
  /\ panicked = FALSE
  /\ ref_lock = NoProc
  /\ ref_counts = [i \in RefIndices |-> 0]
  /\ kmem_lock = NoProc
  /\ kmem_freelist = 0
  /\ kmem_free_pages_count = 0
  \* RAM is not initialised at power-on: any word.
  /\ mem_next \in [Frames -> {0, Word(FILL_ALLOC)}]
  /\ held = [p \in Procs |-> [f \in Frames |-> 0]]
  /\ rogue = FALSE
  /\ trace = <<>>

\* panic(): the system halts; no CPU takes another step.
panic(p) ==
  /\ panicked' = TRUE
  /\ pc' = [pc EXCEPT ![p] = "panic"]

Goto(p, l) == pc' = [pc EXCEPT ![p] = l]

\* CPU p is about to execute statement l and the system has not halted.
At(p, l) == ~panicked /\ pc[p] = l

\* --------------------------------------------------------- kinit, freerange
kinit(p) ==
  /\ At(p, "kinit")
  /\ kmem_lock' = NoProc
  /\ ref_lock' = NoProc
  /\ kmem_free_pages_count' = 0
  /\ p_iter' = PGROUNDUP(end)
  /\ Goto(p, "freerange_loop")
  /\ UNCHANGED <<mode, pa, r, current_count, heir, booted, panicked,
                 ref_counts, kmem_freelist, mem_next, ghost>>

\* Mutant: the last page of the range is left out.
freerange_more_lt(a) == a + PGSIZE < PHYSTOP

\* for(; p + PGSIZE <= (char*)pa_end; ...)
freerange_more(a) == a + PGSIZE <= PHYSTOP

freerange_loop(p) ==
  /\ At(p, "freerange_loop")
  /\ IF freerange_more(p_iter)
     THEN Goto(p, "freerange_acquire") /\ UNCHANGED booted
     ELSE Goto(p, "idle") /\ booted' = TRUE
  /\ UNCHANGED <<mode, locals, panicked, refs, kmem, mem_next, ghost>>

freerange_acquire(p) ==
  /\ At(p, "freerange_acquire")
  /\ ref_lock = NoProc
  /\ ref_lock' = p
  /\ Goto(p, "freerange_set")
  /\ UNCHANGED <<mode, locals, booted, panicked, ref_counts, kmem, mem_next, ghost>>

\* The count freerange charges a page with before it calls kfree.
init_count == 1

\* ref_counts[get_ref_index(p)] = 1; release(&ref_lock); kfree(p);
freerange_set(p) ==
  /\ At(p, "freerange_set")
  /\ ref_counts' = [ref_counts EXCEPT ![get_ref_index(p_iter)] = init_count]
  /\ ref_lock' = NoProc
  /\ pa' = [pa EXCEPT ![p] = p_iter]
  /\ Goto(p, "kfree_check")
  /\ UNCHANGED <<mode, r, current_count, heir, p_iter, booted, panicked,
                 kmem, mem_next, ghost>>

\* ------------------------------------------------------------ ghost state
\* The last call of the trace has returned (single caller).
TraceDone ==
  IF mode = "seq" /\ Len(trace) > 0
  THEN [trace EXCEPT ![Len(trace)].done = TRUE, ![Len(trace)].ret = r[BootProc]]
  ELSE trace

TraceCall(op, a) ==
  IF mode = "seq"
  THEN Append(trace, [op |-> op, arg |-> a, before |-> kmem_free_pages_count,
                      cnt |-> IF get_ref_index(a) \in RefIndices
                              THEN ref_counts[get_ref_index(a)] ELSE 0,
                      own |-> a \in Frames /\ held[BootProc][a] > 0,
                      ret |-> 0, done |-> FALSE])
  ELSE trace

Give(q, f) ==
  IF f \in Frames
  THEN [held EXCEPT ![q][f] = @ + 1]
  ELSE held

\* --------------------------------------------------------------- kfree(pa)
\* Mutant: the alignment test is missing.
kfree_invalid_noalign(a) == a < end \/ a >= PHYSTOP

\* if(((uint64)pa % PGSIZE) != 0 || (char*)pa < end || (uint64)pa >= PHYSTOP)
kfree_invalid(a) == (a % PGSIZE) # 0 \/ a < end \/ a >= PHYSTOP

kfree_check(p) ==
  /\ At(p, "kfree_check")
  /\ IF kfree_invalid(pa[p])
     THEN panic(p)
     ELSE Goto(p, "kref_dec_acquire") /\ UNCHANGED panicked
  /\ UNCHANGED <<mode, locals, booted, refs, kmem, mem_next, ghost>>

\* kfree returns: to freerange's loop (p += PGSIZE) during kinit, else to
\* the caller.  Its locals pa and current_count die.
kfree_return(p) ==
  /\ IF booted
     THEN Goto(p, "idle") /\ UNCHANGED p_iter
     ELSE Goto(p, "freerange_loop") /\ p_iter' = p_iter + PGSIZE
  /\ pa' = [pa EXCEPT ![p] = 0]
  /\ current_count' = [current_count EXCEPT ![p] = 0]
  /\ UNCHANGED <<r, heir>>
  /\ trace' = TraceDone
  /\ UNCHANGED <<held, rogue>>

kref_dec_acquire(p) ==
  /\ At(p, "kref_dec_acquire")
  /\ ref_lock = NoProc
  /\ ref_lock' = p
  /\ Goto(p, "kref_dec")
  /\ UNCHANGED <<mode, locals, booted, panicked, ref_counts, kmem, mem_next, ghost>>

\* kfree recycles only at exactly 0 (an underflow guard the source lacks).
still_shared_ne(c) == c # 0

\* Mutants of the test: a count of 0 kept as shared; a count of 1 recycled.
still_shared_ge(c) == c >= 0
still_shared_gt1(c) == c > 1

\* if(kref_dec(pa) > 0) return;
still_shared(c) == c > 0

\* ref_counts[i]--; current_count = ref_counts[i]; release; and kfree's test
\* of the returned count.
kref_dec(p) ==
  /\ At(p, "kref_dec")
  /\ LET i == get_ref_index(pa[p])
         c == ref_counts[i] - 1
     IN /\ ref_counts' = [ref_counts EXCEPT ![i] = c]
        /\ ref_lock' = NoProc
        /\ IF still_shared(c)
           THEN kfree_return(p)
           ELSE /\ current_count' = [current_count EXCEPT ![p] = c]
                /\ Goto(p, "kfree_memset")
                /\ UNCHANGED <<pa, r, heir, p_iter, ghost>>
  /\ UNCHANGED <<mode, booted, panicked, kmem, mem_next>>

\* memset(pa, 1, PGSIZE);
kfree_memset(p) ==
  /\ At(p, "kfree_memset")
  /\ mem_next' = [mem_next EXCEPT ![pa[p]] = Word(FILL_FREE)]
  /\ Goto(p, "kfree_acquire")
  /\ UNCHANGED <<mode, locals, booted, panicked, refs, kmem, ghost>>

kfree_acquire(p) ==
  /\ At(p, "kfree_acquire")
  /\ kmem_lock = NoProc
  /\ kmem_lock' = p
  /\ Goto(p, "kfree_push")
  /\ UNCHANGED <<mode, locals, booted, panicked, refs, kmem_freelist,
                 kmem_free_pages_count, mem_next, ghost>>

\* Mutant: the push forgets the counter.
pushed_count_keep(n) == n

\* kmem.free_pages_count++;
pushed_count(n) == n + 1

\* r->next = kmem.freelist; kmem.freelist = r; kmem.free_pages_count++;
\* release(&kmem.lock);
kfree_push(p) ==
  /\ At(p, "kfree_push")
  /\ mem_next' = [mem_next EXCEPT ![pa[p]] = kmem_freelist]
  /\ kmem_freelist' = pa[p]
  /\ kmem_free_pages_count' = pushed_count(kmem_free_pages_count)
  /\ kmem_lock' = NoProc
  /\ kfree_return(p)
  /\ UNCHANGED <<mode, booted, panicked, refs>>

\* ---------------------------------------------------------------- kalloc()
kalloc_acquire(p) ==
  /\ At(p, "kalloc_acquire")
  /\ kmem_lock = NoProc
  /\ kmem_lock' = p
  /\ Goto(p, "kalloc_pop")
  /\ UNCHANGED <<mode, locals, booted, panicked, refs, kmem_freelist,
                 kmem_free_pages_count, mem_next, ghost>>

\* Mutant: the pop forgets the counter.
popped_count_keep(n) == n

\* kmem.free_pages_count--;
popped_count(n) == n - 1

\* Mutant: the head is not unlinked.
run_next_self(a) == a

\* r->next, for a page r of RAM.
run_next(a) == mem_next[a]

\* r = kmem.freelist; if(r){ kmem.freelist = r->next; free_pages_count--; }
\* release(&kmem.lock);
\* When r is a fill word and not an address of RAM, reading r->next is
\* undefined: the CPU traps (kerneltrap panics) or the load yields any word.
kalloc_pop(p) ==
  /\ At(p, "kalloc_pop")
  /\ r' = [r EXCEPT ![p] = kmem_freelist]
  /\ \/ /\ kmem_freelist = 0
        /\ UNCHANGED <<kmem_freelist, kmem_free_pages_count>>
        /\ kmem_lock' = NoProc
        /\ Goto(p, "kalloc_memset") /\ UNCHANGED panicked
     \/ /\ kmem_freelist \in Frames
        /\ kmem_freelist' = run_next(kmem_freelist)
        /\ kmem_free_pages_count' = popped_count(kmem_free_pages_count)
        /\ kmem_lock' = NoProc
        /\ Goto(p, "kalloc_memset") /\ UNCHANGED panicked
     \/ /\ kmem_freelist \notin Frames \cup {0}
        /\ \/ panic(p) /\ UNCHANGED kmem
           \/ /\ kmem_freelist' \in Ptrs
              /\ kmem_free_pages_count' = popped_count(kmem_free_pages_count)
              /\ kmem_lock' = NoProc
              /\ Goto(p, "kalloc_memset") /\ UNCHANGED panicked
  /\ UNCHANGED <<mode, pa, current_count, heir, p_iter, booted, refs,
                 mem_next, ghost>>

\* if(r) memset((char*)r, 5, PGSIZE);
\* Writing through a fill word is undefined: trap, or no effect on the state
\* modelled here.
kalloc_memset(p) ==
  /\ At(p, "kalloc_memset")
  /\ \/ /\ r[p] = 0
        /\ Goto(p, "kalloc_ref_acquire") /\ UNCHANGED <<panicked, mem_next>>
     \/ /\ r[p] \in Frames
        /\ mem_next' = [mem_next EXCEPT ![r[p]] = Word(FILL_ALLOC)]
        /\ Goto(p, "kalloc_ref_acquire") /\ UNCHANGED panicked
     \/ /\ r[p] \notin Frames \cup {0}
        /\ \/ panic(p)
           \/ Goto(p, "kalloc_ref_acquire") /\ UNCHANGED panicked
        /\ UNCHANGED mem_next
  /\ UNCHANGED <<mode, locals, booted, refs, kmem, ghost>>

kalloc_ref_acquire(p) ==
  /\ At(p, "kalloc_ref_acquire")
  /\ ref_lock = NoProc
  /\ ref_lock' = p
  /\ Goto(p, "kalloc_set")
  /\ UNCHANGED <<mode, locals, booted, panicked, ref_counts, kmem, mem_next, ghost>>

\* Mutant of the store of kalloc: the count of the new page starts at 2.
alloc_count_two == 1 + 1

\* The count kalloc gives the page it returns.
alloc_count == 1

\* ref_counts[get_ref_index(r)] = 1; release(&ref_lock);
\* Executed whether or not r is 0.  An index outside the array is undefined:
\* trap, or no effect on the state modelled here.
kalloc_set(p) ==
  /\ At(p, "kalloc_set")
  /\ LET i == get_ref_index(r[p])
     IN \/ /\ i \in RefIndices
           /\ ref_counts' = [ref_counts EXCEPT ![i] = alloc_count]
           /\ ref_lock' = NoProc
           /\ Goto(p, "kalloc_return") /\ UNCHANGED panicked
        \/ /\ i \notin RefIndices
           /\ UNCHANGED ref_counts
           /\ \/ panic(p) /\ UNCHANGED ref_lock
              \/ /\ ref_lock' = NoProc
                 /\ Goto(p, "kalloc_return") /\ UNCHANGED panicked
  /\ UNCHANGED <<mode, locals, booted, kmem, mem_next, ghost>>

\* printf("Available memory: ...", kmem.free_pages_count); return (void*)r;
\* The caller receives r[p]; the local r dies.
kalloc_return(p) ==
  /\ At(p, "kalloc_return")
  /\ Goto(p, "idle")
  /\ r' = [r EXCEPT ![p] = 0]
  /\ held' = Give(p, r[p])
  /\ trace' = TraceDone
  /\ UNCHANGED rogue
  /\ UNCHANGED <<mode, pa, current_count, heir, p_iter, booted, panicked,
                 refs, kmem, mem_next>>

\* ------------------------------------------------------------- kref_inc(pa)
kref_inc_acquire(p) ==
  /\ At(p, "kref_inc_acquire")
  /\ ref_lock = NoProc
  /\ ref_lock' = p
  /\ Goto(p, "kref_inc")
  /\ UNCHANGED <<mode, locals, booted, panicked, ref_counts, kmem, mem_next, ghost>>

\* Mutant of kref_inc: a count of 0 is refused with a panic.
kref_inc_checked(p) ==
  /\ At(p, "kref_inc")
  /\ IF ref_counts[get_ref_index(pa[p])] = 0
     THEN /\ panic(p)
          /\ UNCHANGED <<ref_counts, ref_lock, held, pa, heir, trace>>
     ELSE /\ ref_counts' = [ref_counts EXCEPT ![get_ref_index(pa[p])] = @ + 1]
          /\ ref_lock' = NoProc
          /\ Goto(p, "idle") /\ UNCHANGED panicked
          /\ held' = Give(heir[p], pa[p])
          /\ pa' = [pa EXCEPT ![p] = 0]
          /\ heir' = [heir EXCEPT ![p] = p]
          /\ trace' = TraceDone
  /\ UNCHANGED <<mode, r, current_count, p_iter, booted, kmem, mem_next, rogue>>

\* Mutant: kref_inc returns without releasing ref_lock.
kref_inc_norelease(p) ==
  /\ At(p, "kref_inc")
  /\ ref_counts' = [ref_counts EXCEPT ![get_ref_index(pa[p])] = @ + 1]
  /\ Goto(p, "idle")
  /\ held' = Give(heir[p], pa[p])
  /\ pa' = [pa EXCEPT ![p] = 0]
  /\ heir' = [heir EXCEPT ![p] = p]
  /\ trace' = TraceDone
  /\ UNCHANGED <<mode, r, current_count, p_iter, booted, panicked, kmem,
                 mem_next, ref_lock, rogue>>

\* ref_counts[i]++; release(&ref_lock);
kref_inc(p) ==
  /\ At(p, "kref_inc")
  /\ ref_counts' = [ref_counts EXCEPT ![get_ref_index(pa[p])] = @ + 1]
  /\ ref_lock' = NoProc
  /\ Goto(p, "idle")
  /\ held' = Give(heir[p], pa[p])
  /\ UNCHANGED rogue
  /\ pa' = [pa EXCEPT ![p] = 0]
  /\ heir' = [heir EXCEPT ![p] = p]
  /\ trace' = TraceDone
  /\ UNCHANGED <<mode, r, current_count, p_iter, booted, panicked, kmem, mem_next>>

\* ------------------------------------------------------------- the callers
\* A CPU may start a call when it is idle and the kernel has booted.  In
\* mode "seq" only the boot CPU calls, MaxTrace times at most.
MayCall(p) ==
  /\ At(p, "idle")
  /\ booted
  /\ mode = "seq" => p = BootProc /\ Len(trace) < MaxTrace

\* p holds a counted reference to the frame at address a.
Owns(p, a) == a \in Frames /\ held[p][a] > 0

\* In mode "owned" a frame is passed to kfree and kref_inc only by a holder
\* of one of its counted references (kfree may also be passed an address
\* that is no frame).  rogue records that a call broke this rule.
Allowed(p, a) == Owns(p, a) \/ (pc'[p] = "kfree_check" /\ a \notin Frames)

Rule(p, a) ==
  /\ mode = "seq" \/ Allowed(p, a)
  /\ rogue' = (rogue \/ ~Allowed(p, a))

CallKalloc(p) ==
  /\ MayCall(p)
  /\ kmem_free_pages_count > 0 - MaxRef
  /\ Goto(p, "kalloc_acquire")
  /\ trace' = TraceCall("kalloc", 0)
  /\ UNCHANGED <<mode, locals, booted, panicked, refs, kmem, mem_next, held, rogue>>

\* The caller gives up one of its counted references, if it holds one.
CallKfree(p, a) ==
  /\ MayCall(p)
  /\ a \in FreeArgs
  /\ get_ref_index(a) \in RefIndices => ref_counts[get_ref_index(a)] > 0 - MaxRef
  /\ kmem_free_pages_count < NFrames + MaxRef
  /\ pa' = [pa EXCEPT ![p] = a]
  /\ Goto(p, "kfree_check")
  /\ Rule(p, a)
  /\ IF Owns(p, a)
     THEN held' = [held EXCEPT ![p][a] = @ - 1]
     ELSE UNCHANGED held
  /\ trace' = TraceCall("kfree", a)
  /\ UNCHANGED <<mode, r, current_count, heir, p_iter, booted, panicked,
                 refs, kmem, mem_next>>

\* The new reference goes to q (fork: the child shares the parent's page).
CallKrefInc(p, a, q) ==
  /\ MayCall(p)
  /\ a \in IncArgs
  /\ ref_counts[get_ref_index(a)] < MaxRef
  /\ mode = "seq" => q = p
  /\ pa' = [pa EXCEPT ![p] = a]
  /\ heir' = [heir EXCEPT ![p] = q]
  /\ Goto(p, "kref_inc_acquire")
  /\ Rule(p, a)
  /\ trace' = TraceCall("kref_inc", a)
  /\ UNCHANGED <<mode, r, current_count, p_iter, booted, panicked,
                 refs, kmem, mem_next, held>>

Step(p) ==
  \/ kinit(p)
  \/ freerange_loop(p)
  \/ freerange_acquire(p)
  \/ freerange_set(p)
  \/ kfree_check(p)
  \/ kref_dec_acquire(p)
  \/ kref_dec(p)
  \/ kfree_memset(p)
  \/ kfree_acquire(p)
  \/ kfree_push(p)
  \/ kalloc_acquire(p)
  \/ kalloc_pop(p)
  \/ kalloc_memset(p)
  \/ kalloc_ref_acquire(p)
  \/ kalloc_set(p)
  \/ kalloc_return(p)
  \/ kref_inc_acquire(p)
  \/ kref_inc(p)
  \/ CallKalloc(p)
  \/ \E a \in FreeArgs : CallKfree(p, a)
  \/ \E a \in IncArgs, q \in Procs : CallKrefInc(p, a, q)

Next == \E p \in Procs : Step(p)

\* Concurrent CPUs that free and share only frames they hold a counted
\* reference to (and may pass kfree an address that is no frame).
Spec == InitMode("owned") /\ [][Next]_vars
\* One CPU making every sequence of at most MaxTrace calls, with any
\* argument in any state; the calls are recorded in trace.
SpecSeq == InitMode("seq") /\ [][Next]_vars
\* Both kinds of run.
SpecAll == (InitMode("owned") \/ InitMode("seq")) /\ [][Next]_vars

\* A step of CPU p inside a call (or inside boot): a CPU that is executing
\* kernel code keeps executing it.  Starting a call is not forced.
InCall(p) == pc[p] # "idle" /\ Step(p)

\* The acquisition of a spinlock by CPU p: the test-and-set that finds the
\* lock free.
Acquire(p) ==
  \/ freerange_acquire(p)
  \/ kref_dec_acquire(p)
  \/ kfree_acquire(p)
  \/ kalloc_acquire(p)
  \/ kalloc_ref_acquire(p)
  \/ kref_inc_acquire(p)

\* Concurrent disciplined callers on CPUs that never stop: weak fairness of
\* each CPU's steps.  A spinning acquire is not continuously enabled, so
\* nothing here makes the spinlock fair.
SpecFair ==
  /\ InitMode("owned")
  /\ [][Next]_vars
  /\ \A p \in Procs : WF_vars(InCall(p))

\* ------------------------------------------------------------------ claims
Count(f) == ref_counts[get_ref_index(f)]

\* CPU p takes the step (its program counter moves).
Moves(p) == pc'[p] # pc[p]

\* A kalloc has popped f and has not yet set its count.
Popped(f) == \E p \in Procs :
  pc[p] \in {"kalloc_memset", "kalloc_ref_acquire", "kalloc_set"} /\ r[p] = f

\* A kfree has decremented f's count to 0 and has not yet pushed f.
Unpushed(f) == \E p \in Procs :
  pc[p] \in {"kfree_memset", "kfree_acquire", "kfree_push"} /\ pa[p] = f

\* C1, as claimed: once kinit has returned, in every state, also between the
\* two lock sections of a running call, a frame's count is 0 iff the frame
\* is on the free list.
C1_CountZeroIffFree ==
  booted => \A f \in Frames : (Count(f) = 0) <=> (f \in FreeList)

\* C1, amended: once kinit has returned and callers free and share only
\* frames they hold, a frame that no call has between its two lock sections
\* has count 0 iff it is on the free list; a frame that a kalloc has popped
\* but not yet charged, or that a kfree has decremented to 0 but not yet
\* pushed, has count 0 and is not on the free list.
C1_CountZeroIffFreeOutsideCalls ==
  booted => \A f \in Frames :
    IF Popped(f) \/ Unpushed(f)
    THEN Count(f) = 0 /\ f \notin FreeList
    ELSE (Count(f) = 0) <=> (f \in FreeList)

\* Witness of C1: one frame is between pop and forceSet while another is
\* between decrement and push.
C1_Witness ==
  /\ booted
  /\ \E f, g \in Frames : f # g /\ Popped(f) /\ Unpushed(g)

\* C2, as claimed: after any sequence of calls the counter equals the number
\* of frames on the free list.
C2_CounterIsSize == kmem_free_pages_count = Cardinality(FreeList)

\* C2, amended: as long as no call was made on a frame its caller held no
\* counted reference to, the counter equals the number of frames on the free
\* list; and in every run the counter changes only by +1 in a push and by -1
\* in a pop that found a frame.
C2_CounterIsSizeWhenOwned ==
  /\ [](~rogue => kmem_free_pages_count = Cardinality(FreeList))
  /\ [][kmem_free_pages_count' # kmem_free_pages_count =>
          \E p \in Procs :
            /\ Moves(p)
            /\ \/ /\ pc[p] = "kfree_push"
                  /\ kmem_free_pages_count' = kmem_free_pages_count + 1
               \/ /\ pc[p] = "kalloc_pop"
                  /\ kmem_freelist # 0
                  /\ kmem_free_pages_count' = kmem_free_pages_count - 1]_vars

\* Witness of C2: after boot, with no rogue call, a frame has been popped and
\* handed to its caller and another call is inside its push.
C2_Witness ==
  /\ booted /\ ~rogue
  /\ kmem_free_pages_count < Cardinality(Frames)
  /\ \E p \in Procs, f \in Frames : held[p][f] > 0
  /\ \E p \in Procs : pc[p] = "kfree_push"

\* C3: a frame goes onto the free list only in the push of the kfree whose
\* decrement returned 0.  A kfree that decrements a count k > 1 returns with
\* the count k - 1 and leaves the free list, the counter and the frame
\* alone; a kfree that decrements a count of 1 goes on to push the frame,
\* and its push puts the frame on the list with count 0 and adds exactly 1
\* to the counter.
C3_RecycledOnlyAtZero ==
  [][\A p \in Procs : \A f \in Frames :
       /\ (f \in FreeList' /\ f \notin FreeList) =>
            \E q \in Procs : /\ pc[q] = "kfree_push" /\ Moves(q)
                             /\ pa[q] = f /\ current_count[q] = 0
       /\ (booted /\ pc[p] = "kref_dec" /\ Moves(p) /\ pa[p] = f /\ Count(f) > 1) =>
            /\ ref_counts'[get_ref_index(f)] = Count(f) - 1
            /\ pc'[p] = "idle"
            /\ f \notin FreeList'
            /\ UNCHANGED <<kmem_freelist, kmem_free_pages_count, mem_next>>
       /\ (pc[p] = "kref_dec" /\ Moves(p) /\ pa[p] = f /\ Count(f) = 1) =>
            /\ ref_counts'[get_ref_index(f)] = 0
            /\ pc'[p] = "kfree_memset"
            /\ current_count'[p] = 0
       /\ (pc[p] = "kfree_push" /\ Moves(p) /\ pa[p] = f) =>
            /\ f \notin FreeList /\ f \in FreeList'
            /\ ref_counts'[get_ref_index(f)] = 0
            /\ kmem_free_pages_count' = kmem_free_pages_count + 1]_vars

\* Witness of C3: a frame with MaxRef owners, one of which is inside kref_dec
\* about to give its reference up.
C3_Witness ==
  \E p \in Procs : /\ booted /\ pc[p] = "kref_dec" /\ pa[p] \in Frames
                   /\ Count(pa[p]) = MaxRef /\ MaxRef >= 2

\* C4: with callers that free and share only frames they hold, a frame whose
\* count is >= 1 is never on the free list.
C4_OwnedNeverFree ==
  \A f \in Frames : Count(f) >= 1 => f \notin FreeList

\* Witness of C4: a frame with two owners on different CPUs, one of them in
\* the middle of freeing it, while another frame is on the free list.
C4_Witness ==
  \E f, g \in Frames, p, q \in Procs :
    /\ p # q /\ f # g
    /\ Count(f) >= 1 /\ held[q][f] > 0
    /\ pc[p] = "kref_dec" /\ pa[p] = f
    /\ g \in FreeList

\* The calls made so far are all kalloc, made by the one caller of "seq".
OnlyAllocs ==
  mode = "seq" /\ \A i \in 1..Len(trace) : trace[i].op = "kalloc"

\* C5: after kinit over a range of exactly N frames, the first N kalloc calls
\* return pairwise distinct frames of the range, the counter is 0 from the
\* return of the N-th on, and every later kalloc returns 0 and leaves the
\* counter at 0.
C5_Exhaustion ==
  OnlyAllocs =>
    LET N == Cardinality(Frames) IN
    /\ N = NFrames
    /\ \A i \in 1..Len(trace) :
         trace[i].done =>
           /\ IF i <= N THEN trace[i].ret \in Frames ELSE trace[i].ret = 0
           /\ i >= N => kmem_free_pages_count = 0
           /\ trace[i].before = (IF i <= N THEN N - (i - 1) ELSE 0)
    /\ \A i, j \in 1..Len(trace) :
         (i < j /\ j <= N /\ trace[i].done /\ trace[j].done) =>
           trace[i].ret # trace[j].ret

\* Witness of C5: N + 1 kalloc calls have returned, the last one with 0.
C5_Witness ==
  /\ OnlyAllocs
  /\ Len(trace) = NFrames + 1
  /\ trace[NFrames + 1].done /\ trace[NFrames + 1].ret = 0
  /\ trace[NFrames].ret \in Frames
  /\ kmem_free_pages_count = 0

\* CPU p is in a kalloc that found the free list empty.
FailedAlloc(p) ==
  \/ pc[p] = "kalloc_pop" /\ kmem_freelist = 0
  \/ /\ pc[p] \in {"kalloc_memset", "kalloc_ref_acquire", "kalloc_set", "kalloc_return"}
     /\ r[p] = 0

\* C6: a kalloc that finds the free list empty returns 0 and none of its
\* steps changes the free list, the counter or any entry of ref_counts.
C6_FailedAllocChangesNothing ==
  [][\A p \in Procs :
       (FailedAlloc(p) /\ Moves(p)) =>
         /\ UNCHANGED <<kmem_freelist, kmem_free_pages_count, mem_next, ref_counts>>
         /\ pc[p] = "kalloc_return" => r[p] = 0]_vars

\* C7: with one caller, a kalloc that returns a frame followed at once by
\* kfree of that frame leaves the counter at its value before the kalloc and
\* the frame on the free list with count 0; a kalloc that follows returns
\* that frame.
C7_RoundTrip ==
  mode = "seq" =>
    \A i \in 1..Len(trace) :
      (/\ i + 1 <= Len(trace)
       /\ trace[i].op = "kalloc" /\ trace[i].ret # 0
       /\ trace[i + 1].op = "kfree" /\ trace[i + 1].arg = trace[i].ret
       /\ trace[i + 1].done) =>
        /\ i + 1 = Len(trace) =>
             /\ kmem_free_pages_count = trace[i].before
             /\ trace[i].ret \in FreeList
             /\ Count(trace[i].ret) = 0
        /\ (/\ i + 2 <= Len(trace)
            /\ trace[i + 2].op = "kalloc"
            /\ trace[i + 2].done) => trace[i + 2].ret = trace[i].ret

\* Witness of C7: after an earlier call, kalloc returned f, kfree(f)
\* returned, and the next kalloc returned f again.
C7_Witness ==
  /\ mode = "seq" /\ Len(trace) = 4
  /\ trace[2].op = "kalloc" /\ trace[2].ret \in Frames
  /\ trace[3].op = "kfree" /\ trace[3].arg = trace[2].ret
  /\ trace[4].op = "kalloc" /\ trace[4].done /\ trace[4].ret = trace[2].ret

\* C8: when kinit returns, every page-aligned address of the range is on the
\* free list exactly once with count 0 and the counter is the number of
\* frames; during kinit a count changes only to 1 in freerange and from 1 to
\* 0 in kref_dec, and a frame enters the list only in kfree's push, with
\* count 0.
C8_InitFreesEveryFrame ==
  [][/\ (~booted /\ booted') =>
          /\ FreeList' = Frames
          /\ WellFormed'
          /\ Len(FreeListSeq') = NFrames
          /\ Cardinality(Frames) = NFrames
          /\ \A f \in Frames : ref_counts'[get_ref_index(f)] = 0
          /\ kmem_free_pages_count' = NFrames
     /\ ~booted => \A f \in Frames :
          /\ (f \in FreeList' /\ f \notin FreeList) =>
               /\ pc[BootProc] = "kfree_push" /\ pa[BootProc] = f
               /\ Count(f) = 0
          /\ ref_counts'[get_ref_index(f)] # Count(f) =>
               \/ /\ pc[BootProc] = "freerange_set" /\ p_iter = f
                  /\ ref_counts'[get_ref_index(f)] = 1
               \/ /\ pc[BootProc] = "kref_dec" /\ pa[BootProc] = f
                  /\ Count(f) = 1 /\ ref_counts'[get_ref_index(f)] = 0]_vars

\* Witness of C8: kinit has returned and nothing was allocated since.
C8_Witness ==
  /\ booted
  /\ FreeList = Frames /\ kmem_free_pages_count = NFrames
  /\ \A p \in Procs : pc[p] = "idle"
  /\ \A f \in Frames : Count(f) = 0

\* An address kfree must reject: not page aligned, below the first frame of
\* the range, or at or above its top.
BadAddress(a) == a % PGSIZE # 0 \/ a < PGROUNDUP(end) \/ a >= PHYSTOP

\* C9: kfree of a misaligned address, of an address below the range or of an
\* address at or above its top holds no lock when it tests the address, and
\* its next step halts the system leaving every count, the free list, the
\* counter and both locks as they were; once halted, nothing changes.
C9_BadFreePanics ==
  [][/\ \A p \in Procs :
          (pc[p] = "kfree_check" /\ BadAddress(pa[p])) =>
            /\ kmem_lock # p /\ ref_lock # p
            /\ Moves(p) =>
                 /\ panicked' /\ pc'[p] = "panic"
                 /\ UNCHANGED <<ref_counts, kmem_freelist, kmem_free_pages_count,
                                mem_next, ref_lock, kmem_lock>>
     /\ panicked => UNCHANGED vars]_vars

\* Witness of C9: the system has halted in kfree of a misaligned address
\* while the other CPU was inside a call.
C9_Witness ==
  \E p, q \in Procs :
    /\ p # q /\ panicked
    /\ pc[p] = "panic" /\ pa[p] % PGSIZE # 0
    /\ pc[q] # "idle"

RefAcquire == {"freerange_acquire", "kref_dec_acquire", "kalloc_ref_acquire",
               "kref_inc_acquire"}
KmemAcquire == {"kfree_acquire", "kalloc_acquire"}

\* CPU p spins on a lock that CPU q holds.
Waits(p, q) ==
  \/ pc[p] \in RefAcquire /\ ref_lock = q
  \/ pc[p] \in KmemAcquire /\ kmem_lock = q

\* C10: no CPU holds kmem.lock and ref_lock together, none acquires one of
\* them while it holds the other, and there is no set of CPUs each spinning
\* on a lock held by a CPU of the set.
C10_LocksNeverNested ==
  /\ \A p \in Procs :
       /\ ~(kmem_lock = p /\ ref_lock = p)
       /\ pc[p] \in RefAcquire => kmem_lock # p
       /\ pc[p] \in KmemAcquire => ref_lock # p
  /\ ~\E S \in SUBSET Procs : S # {} /\ \A p \in S : \E q \in S : Waits(p, q)

\* Witness of C10: both locks are held, by different CPUs, after boot.
C10_Witness ==
  \E p, q \in Procs :
    /\ p # q /\ booted
    /\ kmem_lock = p /\ ref_lock = q

\* The statements of the allocator that read or write kmem.freelist or
\* kmem.free_pages_count after boot (the push of kfree, the pop of kalloc,
\* the printf of kalloc) and those that read or write an entry of ref_counts.
kmem_access == {"kfree_push", "kalloc_pop", "kalloc_return"}
ref_counts_access == {"freerange_set", "kref_dec", "kalloc_set", "kref_inc"}

\* C12: after boot, a CPU about to read or write the free list or the free
\* page counter holds kmem.lock, and a CPU about to read or write an entry
\* of ref_counts holds ref_lock.
C12_AccessesUnderLock ==
  booted =>
    \A p \in Procs :
      /\ pc[p] \in kmem_access => kmem_lock = p
      /\ pc[p] \in ref_counts_access => ref_lock = p

\* A completed kfree(f) of the single caller that found the count of f at 0.
DoubleFree(i) ==
  /\ trace[i].op = "kfree" /\ trace[i].arg \in Frames
  /\ trace[i].cnt = 0

\* C13 as stated: once a kfree has decremented a count that was 0, no later
\* kalloc returns that frame.
C13_DoubleFreedNeverReturned ==
  mode = "seq" =>
    \A i, j \in 1..Len(trace) :
      (/\ i < j /\ DoubleFree(i)
       /\ trace[j].op = "kalloc" /\ trace[j].done) =>
        trace[j].ret # trace[i].arg

\* C13, amended: a kfree that decrements a count that was 0 puts the frame
\* at the head of the free list, and the kalloc that follows it returns that
\* frame.
C13_DoubleFreedIsReturned ==
  mode = "seq" =>
    \A i \in 1..Len(trace) :
      (/\ i + 1 <= Len(trace) /\ DoubleFree(i)
       /\ trace[i + 1].op = "kalloc" /\ trace[i + 1].done) =>
        trace[i + 1].ret = trace[i].arg

\* Witness of C13: a kfree found the count at 0 and the next call, a kalloc,
\* returned the frame, whose count is 1 again.
C13_Witness ==
  /\ mode = "seq" /\ Len(trace) >= 2
  /\ DoubleFree(Len(trace) - 1)
  /\ trace[Len(trace)].op = "kalloc" /\ trace[Len(trace)].done
  /\ trace[Len(trace)].ret = trace[Len(trace) - 1].arg
  /\ Count(trace[Len(trace)].ret) = 1

KfreeBeforeDec == {"kfree_check", "kref_dec_acquire", "kref_dec"}
KfreeAfterDec == {"kfree_memset", "kfree_acquire", "kfree_push"}

\* C14: kfree of a valid frame whose count is 0 never panics; its decrement
\* leaves the count at -1 and takes the recycle path; when it returns the
\* frame is the head of the free list and the counter is one more than at
\* the call.
C14_DoubleFreeRecycles ==
  mode = "seq" =>
    \A i \in 1..Len(trace) :
      (i = Len(trace) /\ DoubleFree(i)) =>
        /\ ~panicked
        /\ ~trace[i].done =>
             /\ pc[BootProc] \in KfreeBeforeDec \cup KfreeAfterDec
             /\ pc[BootProc] \in KfreeBeforeDec => Count(trace[i].arg) = 0
             /\ pc[BootProc] \in KfreeAfterDec => Count(trace[i].arg) = 0 - 1
             /\ kmem_free_pages_count = trace[i].before
        /\ trace[i].done =>
             /\ pc[BootProc] = "idle"
             /\ Count(trace[i].arg) = 0 - 1
             /\ kmem_freelist = trace[i].arg
             /\ kmem_free_pages_count = trace[i].before + 1

\* Witness of C14: a frame of the free list, with count 0, was freed again:
\* the call returned, the count is -1 and the counter exceeds the number of
\* frames.
C14_Witness ==
  /\ mode = "seq" /\ Len(trace) >= 1
  /\ DoubleFree(Len(trace)) /\ trace[Len(trace)].done
  /\ Count(trace[Len(trace)].arg) = 0 - 1
  /\ kmem_freelist = trace[Len(trace)].arg
  /\ kmem_free_pages_count = NFrames + 1

KallocSteps == {"kalloc_acquire", "kalloc_pop", "kalloc_memset",
                "kalloc_ref_acquire", "kalloc_set", "kalloc_return"}

\* C15: the store of a kalloc that popped frame f sets the count of f to 1
\* and changes no other count, no other step of a kalloc changes any count,
\* and when the call returns f the count of f is 1.
C15_AllocSetsCountToOne ==
  [][\A p \in Procs :
       (Moves(p) /\ pc[p] \in KallocSteps /\ ~panicked') =>
         /\ (pc[p] = "kalloc_set" /\ r[p] \in Frames) =>
              ref_counts' = [ref_counts EXCEPT ![get_ref_index(r[p])] = 1]
         /\ pc[p] # "kalloc_set" => ref_counts' = ref_counts
         /\ (pc[p] = "kalloc_return" /\ r[p] \in Frames) => Count(r[p]) = 1
    ]_vars

\* Witness of C15: a kalloc is about to return a frame that a double free
\* had left with count -1; its count is 1.
C15_Witness ==
  /\ mode = "seq" /\ Len(trace) >= 2
  /\ DoubleFree(Len(trace) - 1)
  /\ pc[BootProc] = "kalloc_return"
  /\ r[BootProc] = trace[Len(trace) - 1].arg
  /\ Count(r[BootProc]) = 1

\* C16: a kfree whose decrement finds a count above 1 lowers that count by
\* one and returns; no step of the call up to there touches the free list,
\* the counter, the content of a frame, kmem.lock or another count.
C16_SharedFreeOnlyDecrements ==
  [][\A p \in Procs :
       (Moves(p) /\ pc[p] \in KfreeBeforeDec /\ pa[p] \in Frames) =>
         /\ UNCHANGED <<kmem_lock, kmem_freelist, kmem_free_pages_count,
                        mem_next>>
         /\ pc[p] # "kref_dec" => UNCHANGED ref_counts
         /\ (pc[p] = "kref_dec" /\ Count(pa[p]) > 1) =>
              /\ ref_counts' =
                   [ref_counts EXCEPT ![get_ref_index(pa[p])] = @ - 1]
              /\ pc'[p] = "idle"
    ]_vars

\* Witness of C16: a kfree that found the count of f at 2 returned; the
\* count is 1, f is not on the free list and the counter is as at the call.
C16_Witness ==
  /\ mode = "seq" /\ Len(trace) >= 1
  /\ trace[Len(trace)].op = "kfree" /\ trace[Len(trace)].arg \in Frames
  /\ trace[Len(trace)].cnt = 2 /\ trace[Len(trace)].done
  /\ Count(trace[Len(trace)].arg) = 1
  /\ trace[Len(trace)].arg \notin FreeList
  /\ kmem_free_pages_count = trace[Len(trace)].before

\* C17: kref_inc never panics, adds one to the count of the frame holding
\* its argument and returns; it changes no other count, nor the free list,
\* the counter, kmem.lock or the content of a frame.
C17_IncAddsOne ==
  [][\A p \in Procs :
       (Moves(p) /\ pc[p] \in {"kref_inc_acquire", "kref_inc"}) =>
         /\ ~panicked'
         /\ UNCHANGED <<kmem_lock, kmem_freelist, kmem_free_pages_count,
                        mem_next>>
         /\ pc[p] = "kref_inc_acquire" => UNCHANGED ref_counts
         /\ pc[p] = "kref_inc" =>
              /\ ref_counts' =
                   [ref_counts EXCEPT ![get_ref_index(pa[p])] = @ + 1]
              /\ pc'[p] = "idle"
    ]_vars

\* Witness of C17: kref_inc of a frame that is on the free list with count
\* 0 returned; the frame is still on the list and its count is 1.
C17_Witness ==
  /\ mode = "seq" /\ Len(trace) >= 1
  /\ trace[Len(trace)].op = "kref_inc" /\ trace[Len(trace)].arg \in Frames
  /\ trace[Len(trace)].cnt = 0 /\ trace[Len(trace)].done
  /\ trace[Len(trace)].arg \in FreeList
  /\ Count(trace[Len(trace)].arg) = 1

\* In a run of the single caller, a kfree that takes the recycle path (the
\* count was 1 at the call) followed by a kalloc: the kalloc returns the
\* frame that was freed.
FreeThenAlloc ==
  mode = "seq" =>
    \A i \in 1..Len(trace) :
      (/\ i + 1 <= Len(trace)
       /\ trace[i].op = "kfree" /\ trace[i].arg \in Frames
       /\ trace[i].cnt = 1
       /\ trace[i + 1].op = "kalloc" /\ trace[i + 1].done) =>
        trace[i + 1].ret = trace[i].arg

\* C18: on a proper list, the push of kfree puts its frame in front of the
\* list, the pop of kalloc takes the first frame of the list and leaves the
\* rest, and while callers keep to the ownership rule no other step changes
\* the list; a recycling kfree(f) followed by kalloc returns f.
C18_Lifo ==
  [][/\ \A p \in Procs :
          (Moves(p) /\ WellFormed) =>
            /\ (pc[p] = "kfree_push" /\ pa[p] \notin FreeList) =>
                 FreeListSeq' = <<pa[p]>> \o FreeListSeq
            /\ (pc[p] = "kalloc_pop" /\ kmem_freelist # 0) =>
                 /\ r'[p] = Head(FreeListSeq)
                 /\ FreeListSeq' = Tail(FreeListSeq)
            /\ (pc[p] \notin {"kfree_push", "kalloc_pop"} /\ ~rogue') =>
                 FreeListSeq' = FreeListSeq
     /\ FreeThenAlloc'
    ]_vars

\* Witness of C18: two kallocs returned different frames, the first of them
\* was freed, and the next kalloc returned it.
C18_Witness ==
  /\ mode = "seq" /\ Len(trace) = 4
  /\ trace[1].op = "kalloc" /\ trace[2].op = "kalloc"
  /\ trace[1].ret \in Frames /\ trace[2].ret \in Frames
  /\ trace[1].ret # trace[2].ret
  /\ trace[3].op = "kfree" /\ trace[3].arg = trace[1].ret
  /\ trace[4].op = "kalloc" /\ trace[4].done
  /\ trace[4].ret = trace[1].ret

\* Every kfree of the single caller was passed a frame the caller held a
\* counted reference to (in mode "owned" the callers do so by construction).
HolderFrees ==
  mode = "seq" =>
    \A i \in 1..Len(trace) : trace[i].op = "kfree" => trace[i].own

\* The chain of the free list does not come back to a frame it has visited.
NoDuplicate == WalkEnd(kmem_freelist, {}) \notin Frames

AllocSteps == {"kalloc_memset", "kalloc_ref_acquire", "kalloc_set",
               "kalloc_return"}

\* A kalloc that has popped f has it alone: f is not on the free list, no
\* CPU holds a counted reference to f, no other kalloc has popped f and no
\* kfree or kref_inc of f is running.
AllocExclusive ==
  \A p \in Procs, f \in Frames :
    (pc[p] \in AllocSteps /\ r[p] = f) =>
      /\ f \notin FreeList
      /\ \A q \in Procs :
           /\ held[q][f] = 0
           /\ pa[q] # f
           /\ (q # p /\ pc[q] \in AllocSteps) => r[q] # f

\* In a run of the single caller, two kallocs that returned the same frame
\* have between them a kfree of that frame that found its count at 1.
TwoReturnsNeedFree ==
  mode = "seq" =>
    \A i, j \in 1..Len(trace) :
      (/\ i < j
       /\ trace[i].op = "kalloc" /\ trace[j].op = "kalloc" /\ trace[j].done
       /\ trace[i].ret \in Frames /\ trace[j].ret = trace[i].ret) =>
        \E k \in (i + 1)..(j - 1) :
          /\ trace[k].op = "kfree" /\ trace[k].arg = trace[i].ret
          /\ trace[k].cnt = 1

\* C19 as stated: when every kfree is made by a holder of a counted
\* reference, the free list holds no frame twice, and a frame is returned by
\* two kallocs only with a kfree that brought its count to 0 in between
\* (among concurrent callers: a kalloc never has a frame that another kalloc
\* has or that is still held).
C19_NoDuplicateIfHolderFrees ==
  HolderFrees =>
    /\ NoDuplicate
    /\ TwoReturnsNeedFree
    /\ mode = "owned" => AllocExclusive

\* C19, amended: when every kfree and every kref_inc is made by a holder of
\* a counted reference, the free list is a proper chain with no frame twice,
\* a kfree never pushes a frame that is on the list, a kalloc never has a
\* frame that is still held or that another kalloc has, and a frame is
\* returned twice only with a kfree that brought its count to 0 in between.
C19_NoDuplicateIfHolderCalls ==
  ~rogue =>
    /\ WellFormed /\ NoDuplicate
    /\ \A f \in Frames : Unpushed(f) => f \notin FreeList
    /\ AllocExclusive
    /\ TwoReturnsNeedFree

\* Witness of C19: two CPUs are inside kalloc at once, each with a frame it
\* has popped, and the free list is empty.
C19_Witness ==
  \E p, q \in Procs :
    /\ p # q /\ mode = "owned"
    /\ pc[p] \in AllocSteps /\ pc[q] \in AllocSteps
    /\ r[p] \in Frames /\ r[q] \in Frames
    /\ kmem_freelist = 0

\* C11 as stated: with every CPU taking steps, every call that has started
\* (and boot) eventually returns, unless the kernel panics.
C11_EveryCallCompletes ==
  \A p \in Procs : (pc[p] # "idle") ~> (pc[p] = "idle" \/ panicked)

\* C11, amended: the same, provided that a CPU spinning on a lock that is
\* free again and again eventually wins it.
C11_EveryCallCompletesIfLocksFair ==
  (\A p \in Procs : SF_vars(Acquire(p))) =>
    \A p \in Procs : (pc[p] # "idle") ~> (pc[p] = "idle" \/ panicked)

\* Witness of C11: a kalloc holds kmem.lock and is about to pop from an
\* empty free list while another CPU's kalloc spins on that lock.
C11_Witness ==
  \E p, q \in Procs :
    /\ p # q /\ ~panicked
    /\ pc[p] = "kalloc_pop" /\ kmem_lock = p /\ kmem_freelist = 0
    /\ pc[q] = "kalloc_acquire"
====
